---- MODULE Spec2Model ----
(***************************************************************************)
(* travel_planner_app.py: the itinerary pipeline (generation LLM call,     *)
(* response normalisation, shape coercion, weather injection, review pass) *)
(* and the per-day rendering with its geocoded map markers.                *)
(*                                                                         *)
(* Text is a sequence of one-character strings, so that fence stripping,   *)
(* str.strip and JSON decoding are computed character by character.        *)
(* JSON values are tagged records; a raised exception is the value Raised. *)
(***************************************************************************)
EXTENDS Integers, Sequences, FiniteSets, TLC

\* ---- string literals of the source, as character sequences ----
s_day == <<"d", "a", "y">>
s_activities == <<"a", "c", "t", "i", "v", "i", "t", "i", "e", "s">>
s_notes == <<"n", "o", "t", "e", "s">>
s_time == <<"t", "i", "m", "e">>
s_place_name == <<"p", "l", "a", "c", "e", "_", "n", "a", "m", "e">>
s_category == <<"c", "a", "t", "e", "g", "o", "r", "y">>
s_description == <<"d", "e", "s", "c", "r", "i", "p", "t", "i", "o", "n">>
s_current_condition ==
  <<"c", "u", "r", "r", "e", "n", "t", "_", "c", "o", "n", "d", "i", "t", "i", "o", "n">>
s_weatherDesc == <<"w", "e", "a", "t", "h", "e", "r", "D", "e", "s", "c">>
s_value == <<"v", "a", "l", "u", "e">>
s_temp_C == <<"t", "e", "m", "p", "_", "C">>
s_json == <<"j", "s", "o", "n">>
s_null == <<"n", "u", "l", "l">>
s_true == <<"t", "r", "u", "e">>
s_false == <<"f", "a", "l", "s", "e">>
s_None == <<"N", "o", "n", "e">>
s_True == <<"T", "r", "u", "e">>
s_False == <<"F", "a", "l", "s", "e">>
s_All_day == <<"A", "l", "l", " ", "d", "a", "y">>
s_All_Day == <<"A", "l", "l", " ", "D", "a", "y">>
s_Unknown == <<"U", "n", "k", "n", "o", "w", "n">>
s_Unknown_Place == <<"U", "n", "k", "n", "o", "w", "n", " ", "P", "l", "a", "c", "e">>
s_Sightseeing == <<"S", "i", "g", "h", "t", "s", "e", "e", "i", "n", "g">>
s_Invalid_response_format ==
  <<"I", "n", "v", "a", "l", "i", "d", " ", "r", "e", "s", "p", "o", "n", "s", "e", " ",
    "f", "o", "r", "m", "a", "t", ".">>
s_weather_sep == <<" ", "|", " ", "W", "e", "a", "t", "h", "e", "r", ":", " ">>
s_weather_unavailable ==
  <<"W", "e", "a", "t", "h", "e", "r", " ", "d", "a", "t", "a", " ", "u", "n", "a", "v",
    "a", "i", "l", "a", "b", "l", "e">>
s_comma_space == <<",", " ">>
s_degC == <<"°", "C">>

\* ---- Python values that json.loads can produce, and the raised exception ----
JNull == [t |-> "null"]
JBool(b) == [t |-> "bool", b |-> b]
JNum(n) == [t |-> "num", n |-> n]
JStr(s) == [t |-> "str", s |-> s]
JList(items) == [t |-> "list", items |-> items]
JDict(kv) == [t |-> "dict", kv |-> kv]
Raised == [t |-> "raise"]

EmptyMap == [k \in {} |-> JNull]
\* d[k] = v on a dict
Put(m, k, v) == [x \in (DOMAIN m) \cup {k} |-> IF x = k THEN v ELSE m[x]]
\* d.get(k, default)
Get(d, k, default) == IF k \in DOMAIN d.kv THEN d.kv[k] ELSE default

\* ---- str helpers ----
StartsWithAt(s, i, lit) ==
  /\ i + Len(lit) - 1 <= Len(s)
  /\ SubSeq(s, i, i + Len(lit) - 1) = lit

EndsWith(s, suffix) ==
  /\ Len(suffix) <= Len(s)
  /\ SubSeq(s, Len(s) - Len(suffix) + 1, Len(s)) = suffix

\* the whitespace str.strip() removes, within the modelled alphabet
PyWhitespace == {" ", "\t", "\n", "\r", "\f"}

\* the least index j >= i with s[j] outside chars, Len(s) + 1 when there is none
FirstNotIn(s, i, chars) ==
  CHOOSE j \in i..(Len(s) + 1) :
    /\ j = Len(s) + 1 \/ s[j] \notin chars
    /\ \A k \in i..(j - 1) : s[k] \in chars

\* the least index j >= i with s[j] in chars, Len(s) + 1 when there is none
FirstIn(s, i, chars) ==
  CHOOSE j \in i..(Len(s) + 1) :
    /\ j = Len(s) + 1 \/ s[j] \in chars
    /\ \A k \in i..(j - 1) : s[k] \notin chars

\* the greatest index j <= Len(s) with s[j] outside chars, 0 when there is none
LastNotIn(s, chars) ==
  CHOOSE j \in 0..Len(s) :
    /\ j = 0 \/ s[j] \notin chars
    /\ \A k \in (j + 1)..Len(s) : s[k] \in chars

\* str.strip(chars)
Strip(s, chars) == SubSeq(s, FirstNotIn(s, 1, chars), LastNotIn(s, chars))

Digits == <<"0", "1", "2", "3", "4", "5", "6", "7", "8", "9">>
IsDigit(c) == \E d \in 1..10 : Digits[d] = c
DigitVal(c) == (CHOOSE d \in 1..10 : Digits[d] = c) - 1

RECURSIVE NatToStr(_)
NatToStr(n) ==
  IF n < 10 THEN <<Digits[n + 1]>> ELSE NatToStr(n \div 10) \o <<Digits[(n % 10) + 1]>>

\* str() of a value inside an f-string; containers are not formatted by any modelled input
PyStr(v) ==
  CASE v.t = "str" -> v.s
    [] v.t = "num" -> IF v.n < 0 THEN <<"-">> \o NatToStr(-v.n) ELSE NatToStr(v.n)
    [] v.t = "null" -> s_None
    [] v.t = "bool" -> IF v.b THEN s_True ELSE s_False

\* bool(v)
Truthy(v) ==
  CASE v.t = "null" -> FALSE
    [] v.t = "bool" -> v.b
    [] v.t = "num" -> v.n # 0
    [] v.t = "str" -> v.s # <<>>
    [] v.t = "list" -> v.items # <<>>
    [] v.t = "dict" -> DOMAIN v.kv # {}

\* v[k], k a str key or an int index
GetItem(v, k) ==
  CASE v.t = "raise" -> Raised
    [] v.t = "dict" ->
         IF k.t = "str" /\ k.s \in DOMAIN v.kv THEN v.kv[k.s] ELSE Raised
    [] v.t = "list" ->
         IF k.t # "num" THEN Raised
         ELSE LET i == IF k.n < 0 THEN k.n + Len(v.items) ELSE k.n
              IN IF i >= 0 /\ i < Len(v.items) THEN v.items[i + 1] ELSE Raised
    [] v.t = "str" ->
         IF k.t # "num" THEN Raised
         ELSE LET i == IF k.n < 0 THEN k.n + Len(v.s) ELSE k.n
              IN IF i >= 0 /\ i < Len(v.s) THEN JStr(<<v.s[i + 1]>>) ELSE Raised
    [] OTHER -> Raised

\* ---- json.loads: the decoder over objects, arrays, strings, integers and literals ----
\* (fractions, exponents, \b and \u escapes do not occur in the modelled inputs)
JsonWhitespace == {" ", "\t", "\n", "\r"}
ControlChars == {"\t", "\n", "\r", "\f"}

SkipWs(s, i) == IF i > Len(s) THEN i ELSE FirstNotIn(s, i, JsonWhitespace)

Fail == [ok |-> FALSE, val |-> JNull, pos |-> 0]
Ok(v, p) == [ok |-> TRUE, val |-> v, pos |-> p]

Unescape(c) ==
  CASE c = "n" -> "\n"
    [] c = "t" -> "\t"
    [] c = "r" -> "\r"
    [] c = "f" -> "\f"
    [] OTHER -> c

\* the string whose opening quote precedes index i; acc holds the chunks already read
RECURSIVE ScanString(_, _, _)
ScanString(s, i, acc) ==
  IF i > Len(s) THEN Fail
  ELSE LET j == FirstIn(s, i, {"\"", "\\"} \cup ControlChars)
           chunk == acc \o SubSeq(s, i, j - 1)
       IN IF j > Len(s) THEN Fail
          ELSE IF s[j] = "\"" THEN Ok(JStr(chunk), j + 1)
          ELSE IF s[j] = "\\" THEN
            IF j + 1 <= Len(s) /\ s[j + 1] \in {"\"", "\\", "/", "n", "t", "r", "f"}
            THEN ScanString(s, j + 2, Append(chunk, Unescape(s[j + 1])))
            ELSE Fail
          ELSE Fail

RECURSIVE ScanDigits(_, _, _)
ScanDigits(s, i, n) ==
  IF i <= Len(s) /\ IsDigit(s[i])
  THEN ScanDigits(s, i + 1, 10 * n + DigitVal(s[i]))
  ELSE [n |-> n, pos |-> i]

ScanNumber(s, i) ==
  LET neg == s[i] = "-"
      j == IF neg THEN i + 1 ELSE i
  IN IF j > Len(s) \/ ~IsDigit(s[j]) THEN Fail
     ELSE IF s[j] = "0" THEN Ok(JNum(0), j + 1)
     ELSE LET r == ScanDigits(s, j, 0)
          IN Ok(JNum(IF neg THEN 0 - r.n ELSE r.n), r.pos)

RECURSIVE ParseValue(_, _)
RECURSIVE ParseItems(_, _, _)
RECURSIVE ParseMembers(_, _, _)

ParseValue(s, i) ==
  IF i > Len(s) THEN Fail
  ELSE CASE s[i] = "\"" -> ScanString(s, i + 1, <<>>)
         [] s[i] = "[" ->
              LET j == SkipWs(s, i + 1)
              IN IF j <= Len(s) /\ s[j] = "]" THEN Ok(JList(<<>>), j + 1)
                 ELSE ParseItems(s, j, <<>>)
         [] s[i] = "{" ->
              LET j == SkipWs(s, i + 1)
              IN IF j <= Len(s) /\ s[j] = "}" THEN Ok(JDict(EmptyMap), j + 1)
                 ELSE ParseMembers(s, j, EmptyMap)
         [] s[i] = "n" -> IF StartsWithAt(s, i, s_null) THEN Ok(JNull, i + 4) ELSE Fail
         [] s[i] = "t" -> IF StartsWithAt(s, i, s_true) THEN Ok(JBool(TRUE), i + 4) ELSE Fail
         [] s[i] = "f" -> IF StartsWithAt(s, i, s_false) THEN Ok(JBool(FALSE), i + 5) ELSE Fail
         [] s[i] = "-" \/ IsDigit(s[i]) -> ScanNumber(s, i)
         [] OTHER -> Fail

ParseItems(s, i, acc) ==
  LET r == ParseValue(s, i)
  IN IF ~r.ok THEN Fail
     ELSE LET j == SkipWs(s, r.pos)
          IN IF j > Len(s) THEN Fail
             ELSE IF s[j] = "," THEN ParseItems(s, SkipWs(s, j + 1), Append(acc, r.val))
             ELSE IF s[j] = "]" THEN Ok(JList(Append(acc, r.val)), j + 1)
             ELSE Fail

ParseMembers(s, i, acc) ==
  IF i > Len(s) \/ s[i] # "\"" THEN Fail
  ELSE LET k == ScanString(s, i + 1, <<>>)
       IN IF ~k.ok THEN Fail
          ELSE LET c == SkipWs(s, k.pos)
               IN IF c > Len(s) \/ s[c] # ":" THEN Fail
                  ELSE LET r == ParseValue(s, SkipWs(s, c + 1))
                       IN IF ~r.ok THEN Fail
                          ELSE LET j == SkipWs(s, r.pos)
                                   m == Put(acc, k.val.s, r.val)
                               IN IF j > Len(s) THEN Fail
                                  ELSE IF s[j] = "," THEN ParseMembers(s, SkipWs(s, j + 1), m)
                                  ELSE IF s[j] = "}" THEN Ok(JDict(m), j + 1)
                                  ELSE Fail

\* json.loads(s): the decoded value, or Raised (JSONDecodeError, also on trailing data)
json_loads(s) ==
  LET r == ParseValue(s, SkipWs(s, 1))
  IN IF r.ok /\ SkipWs(s, r.pos) > Len(s) THEN r.val ELSE Raised

\* ---- parse_llm_json ----
\* the backquote character (it cannot be written inside a TLA+ string)
Backtick == "BACKTICK"
Fence == <<Backtick, Backtick, Backtick>>

\* re.sub(r"<fence>(?:json)?", "", text), <fence> being three backquotes
\* the least index j >= i where a fence starts, Len(s) + 1 when there is none
NextFence(s, i) ==
  CHOOSE j \in i..(Len(s) + 1) :
    /\ j = Len(s) + 1 \/ StartsWithAt(s, j, Fence)
    /\ \A k \in i..(j - 1) : ~StartsWithAt(s, k, Fence)

RECURSIVE SubFences(_, _)
SubFences(s, i) ==
  IF i > Len(s) THEN <<>>
  ELSE LET j == NextFence(s, i)
       IN IF j > Len(s) THEN SubSeq(s, i, Len(s))
          ELSE SubSeq(s, i, j - 1)
               \o SubFences(s, IF StartsWithAt(s, j + 3, s_json) THEN j + 7 ELSE j + 3)

\* cleaned.replace(<fence>, "")
RECURSIVE ReplaceFences(_, _)
ReplaceFences(s, i) ==
  IF i > Len(s) THEN <<>>
  ELSE LET j == NextFence(s, i)
       IN IF j > Len(s) THEN SubSeq(s, i, Len(s))
          ELSE SubSeq(s, i, j - 1) \o ReplaceFences(s, j + 3)

Cleaned(text) == Strip(ReplaceFences(SubFences(text, 1), 1), PyWhitespace)

\* {"time": t, "place_name": "Unknown", "description": d}
ParseFallbackActivity(text) ==
  JDict(Put(Put(Put(EmptyMap, s_time, JStr(s_All_day)),
                s_place_name, JStr(s_Unknown)),
            s_description, JStr(text)))

\* the except branch value
ParseFallback(text) ==
  JList(<<JDict(Put(Put(Put(EmptyMap, s_day, JNum(1)),
                        s_activities, JList(<<ParseFallbackActivity(text)>>)),
                    s_notes, JStr(<<>>)))>>)

\* faulty variant of parse_llm_json: the except branch returns the text itself
parse_llm_json_bare_text(text) ==
  LET loaded == json_loads(Cleaned(text))
  IN IF loaded = Raised THEN JStr(text) ELSE loaded

parse_llm_json(text) ==
  LET loaded == json_loads(Cleaned(text))
  IN IF loaded = Raised THEN ParseFallback(text) ELSE loaded

\* ---- the modelled responses of the LLM and of the weather service ----
\* [{"day":1,"activities":[{"place_name":"P","description":"d"}],"notes":""}]
G_scenario1 ==
  <<"[", "{", "\"", "d", "a", "y", "\"", ":", "1", ",", "\"", "a", "c", "t", "i", "v", "i",
    "t", "i", "e", "s", "\"", ":", "[", "{", "\"", "p", "l", "a", "c", "e", "_", "n", "a",
    "m", "e", "\"", ":", "\"", "P", "\"", ",", "\"", "d", "e", "s", "c", "r", "i", "p", "t",
    "i", "o", "n", "\"", ":", "\"", "d", "\"", "}", "]", ",", "\"", "n", "o", "t", "e", "s",
    "\"", ":", "\"", "\"", "}", "]">>
\* Sorry
G_prose ==
  <<"S", "o", "r", "r", "y">>
\* {"day":1,"activities":[],"notes":"x"}
G_object ==
  <<"{", "\"", "d", "a", "y", "\"", ":", "1", ",", "\"", "a", "c", "t", "i", "v", "i", "t",
    "i", "e", "s", "\"", ":", "[", "]", ",", "\"", "n", "o", "t", "e", "s", "\"", ":", "\"",
    "x", "\"", "}">>
\* "hi"
G_string ==
  <<"\"", "h", "i", "\"">>
\* 7
G_number ==
  <<"7">>
\* null
G_null ==
  <<"n", "u", "l", "l">>
\* [1,"x"]
G_scalars ==
  <<"[", "1", ",", "\"", "x", "\"", "]">>
\* [{"day":1,"notes":"a"},2]
G_mixed ==
  <<"[", "{", "\"", "d", "a", "y", "\"", ":", "1", ",", "\"", "n", "o", "t", "e", "s", "\"",
    ":", "\"", "a", "\"", "}", ",", "2", "]">>
\* [{"day":1,"activities":[],"notes":null}]
G_notes_null ==
  <<"[", "{", "\"", "d", "a", "y", "\"", ":", "1", ",", "\"", "a", "c", "t", "i", "v", "i",
    "t", "i", "e", "s", "\"", ":", "[", "]", ",", "\"", "n", "o", "t", "e", "s", "\"", ":",
    "n", "u", "l", "l", "}", "]">>
\* [{"day":1,"activities":[]}]
G_notes_absent ==
  <<"[", "{", "\"", "d", "a", "y", "\"", ":", "1", ",", "\"", "a", "c", "t", "i", "v", "i",
    "t", "i", "e", "s", "\"", ":", "[", "]", "}", "]">>
\* [{"day":1,"notes":5}]
G_notes_number ==
  <<"[", "{", "\"", "d", "a", "y", "\"", ":", "1", ",", "\"", "n", "o", "t", "e", "s", "\"",
    ":", "5", "}", "]">>
\* [{"activities":[{"place_name":"P"}],"notes":"n"}]
G_no_day ==
  <<"[", "{", "\"", "a", "c", "t", "i", "v", "i", "t", "i", "e", "s", "\"", ":", "[", "{",
    "\"", "p", "l", "a", "c", "e", "_", "n", "a", "m", "e", "\"", ":", "\"", "P", "\"", "}",
    "]", ",", "\"", "n", "o", "t", "e", "s", "\"", ":", "\"", "n", "\"", "}", "]">>
\* [{"day":"x","activities":[{"place_name":"P"}]}]
G_day_text ==
  <<"[", "{", "\"", "d", "a", "y", "\"", ":", "\"", "x", "\"", ",", "\"", "a", "c", "t",
    "i", "v", "i", "t", "i", "e", "s", "\"", ":", "[", "{", "\"", "p", "l", "a", "c", "e",
    "_", "n", "a", "m", "e", "\"", ":", "\"", "P", "\"", "}", "]", "}", "]">>
\* '''json\n[{"day":2,"activities":[{"place_name":"P"},{"place_name":""},{"place_name":"Q"}]}]\n'''
G_fenced ==
  <<Backtick, Backtick, Backtick, "j", "s", "o", "n", "\n", "[", "{", "\"", "d", "a", "y",
    "\"", ":", "2", ",", "\"", "a", "c", "t", "i", "v", "i", "t", "i", "e", "s", "\"", ":",
    "[", "{", "\"", "p", "l", "a", "c", "e", "_", "n", "a", "m", "e", "\"", ":", "\"", "P",
    "\"", "}", ",", "{", "\"", "p", "l", "a", "c", "e", "_", "n", "a", "m", "e", "\"", ":",
    "\"", "\"", "}", ",", "{", "\"", "p", "l", "a", "c", "e", "_", "n", "a", "m", "e", "\"",
    ":", "\"", "Q", "\"", "}", "]", "}", "]", "\n", Backtick, Backtick, Backtick>>
\* [{"day":1,"activities":[{"place_name":"P"}]},{"day":2,"activities":[]}]
G_two_days ==
  <<"[", "{", "\"", "d", "a", "y", "\"", ":", "1", ",", "\"", "a", "c", "t", "i", "v", "i",
    "t", "i", "e", "s", "\"", ":", "[", "{", "\"", "p", "l", "a", "c", "e", "_", "n", "a",
    "m", "e", "\"", ":", "\"", "P", "\"", "}", "]", "}", ",", "{", "\"", "d", "a", "y",
    "\"", ":", "2", ",", "\"", "a", "c", "t", "i", "v", "i", "t", "i", "e", "s", "\"", ":",
    "[", "]", "}", "]">>
\* [{"day":1,"activities":[3]}]
G_bad_activity ==
  <<"[", "{", "\"", "d", "a", "y", "\"", ":", "1", ",", "\"", "a", "c", "t", "i", "v", "i",
    "t", "i", "e", "s", "\"", ":", "[", "3", "]", "}", "]">>
\* [{"day":1,"activities":[{"place_name":5}]}]
G_bad_place ==
  <<"[", "{", "\"", "d", "a", "y", "\"", ":", "1", ",", "\"", "a", "c", "t", "i", "v", "i",
    "t", "i", "e", "s", "\"", ":", "[", "{", "\"", "p", "l", "a", "c", "e", "_", "n", "a",
    "m", "e", "\"", ":", "5", "}", "]", "}", "]">>
\* [{"day":1,"activities":[],"notes":"
NotesPrefix ==
  <<"[", "{", "\"", "d", "a", "y", "\"", ":", "1", ",", "\"", "a", "c", "t", "i", "v", "i",
    "t", "i", "e", "s", "\"", ":", "[", "]", ",", "\"", "n", "o", "t", "e", "s", "\"", ":",
    "\"">>
\* "}]
NotesSuffix ==
  <<"\"", "}", "]">>
\* {"current_condition":[{"temp_C":"30","weatherDesc":[{"value":"Sunny"}]}]}
W_sunny ==
  <<"{", "\"", "c", "u", "r", "r", "e", "n", "t", "_", "c", "o", "n", "d", "i", "t", "i",
    "o", "n", "\"", ":", "[", "{", "\"", "t", "e", "m", "p", "_", "C", "\"", ":", "\"", "3",
    "0", "\"", ",", "\"", "w", "e", "a", "t", "h", "e", "r", "D", "e", "s", "c", "\"", ":",
    "[", "{", "\"", "v", "a", "l", "u", "e", "\"", ":", "\"", "S", "u", "n", "n", "y", "\"",
    "}", "]", "}", "]", "}">>
\* {"current_condition":[{"temp_C":-7,"weatherDesc":[{"value":"Fog"}]}]}
W_fog_int ==
  <<"{", "\"", "c", "u", "r", "r", "e", "n", "t", "_", "c", "o", "n", "d", "i", "t", "i",
    "o", "n", "\"", ":", "[", "{", "\"", "t", "e", "m", "p", "_", "C", "\"", ":", "-", "7",
    ",", "\"", "w", "e", "a", "t", "h", "e", "r", "D", "e", "s", "c", "\"", ":", "[", "{",
    "\"", "v", "a", "l", "u", "e", "\"", ":", "\"", "F", "o", "g", "\"", "}", "]", "}", "]",
    "}">>
\* <html>
W_html ==
  <<"<", "h", "t", "m", "l", ">">>
\* {}
W_empty_object ==
  <<"{", "}">>
\* [1]
W_array ==
  <<"[", "1", "]">>
\* {"current_condition":[]}
W_no_condition ==
  <<"{", "\"", "c", "u", "r", "r", "e", "n", "t", "_", "c", "o", "n", "d", "i", "t", "i",
    "o", "n", "\"", ":", "[", "]", "}">>
\* {"current_condition":"ab"}
W_condition_text ==
  <<"{", "\"", "c", "u", "r", "r", "e", "n", "t", "_", "c", "o", "n", "d", "i", "t", "i",
    "o", "n", "\"", ":", "\"", "a", "b", "\"", "}">>
\* {"current_condition":[{"temp_C":"30"}]}
W_no_desc ==
  <<"{", "\"", "c", "u", "r", "r", "e", "n", "t", "_", "c", "o", "n", "d", "i", "t", "i",
    "o", "n", "\"", ":", "[", "{", "\"", "t", "e", "m", "p", "_", "C", "\"", ":", "\"", "3",
    "0", "\"", "}", "]", "}">>
\* {"current_condition":[{"temp_C":"30","weatherDesc":[]}]}
W_desc_empty ==
  <<"{", "\"", "c", "u", "r", "r", "e", "n", "t", "_", "c", "o", "n", "d", "i", "t", "i",
    "o", "n", "\"", ":", "[", "{", "\"", "t", "e", "m", "p", "_", "C", "\"", ":", "\"", "3",
    "0", "\"", ",", "\"", "w", "e", "a", "t", "h", "e", "r", "D", "e", "s", "c", "\"", ":",
    "[", "]", "}", "]", "}">>
\* {"current_condition":[{"temp_C":"30","weatherDesc":"ab"}]}
W_desc_text ==
  <<"{", "\"", "c", "u", "r", "r", "e", "n", "t", "_", "c", "o", "n", "d", "i", "t", "i",
    "o", "n", "\"", ":", "[", "{", "\"", "t", "e", "m", "p", "_", "C", "\"", ":", "\"", "3",
    "0", "\"", ",", "\"", "w", "e", "a", "t", "h", "e", "r", "D", "e", "s", "c", "\"", ":",
    "\"", "a", "b", "\"", "}", "]", "}">>
\* {"current_condition":[{"temp_C":"30","weatherDesc":[{}]}]}
W_no_value ==
  <<"{", "\"", "c", "u", "r", "r", "e", "n", "t", "_", "c", "o", "n", "d", "i", "t", "i",
    "o", "n", "\"", ":", "[", "{", "\"", "t", "e", "m", "p", "_", "C", "\"", ":", "\"", "3",
    "0", "\"", ",", "\"", "w", "e", "a", "t", "h", "e", "r", "D", "e", "s", "c", "\"", ":",
    "[", "{", "}", "]", "}", "]", "}">>
\* {"current_condition":[{"weatherDesc":[{"value":"Sunny"}]}]}
W_no_temp ==
  <<"{", "\"", "c", "u", "r", "r", "e", "n", "t", "_", "c", "o", "n", "d", "i", "t", "i",
    "o", "n", "\"", ":", "[", "{", "\"", "w", "e", "a", "t", "h", "e", "r", "D", "e", "s",
    "c", "\"", ":", "[", "{", "\"", "v", "a", "l", "u", "e", "\"", ":", "\"", "S", "u", "n",
    "n", "y", "\"", "}", "]", "}", "]", "}">>
\* [{"day":1,"activities":[{"place_name":"Q"}],"notes":"ok"}]
R_revised ==
  <<"[", "{", "\"", "d", "a", "y", "\"", ":", "1", ",", "\"", "a", "c", "t", "i", "v", "i",
    "t", "i", "e", "s", "\"", ":", "[", "{", "\"", "p", "l", "a", "c", "e", "_", "n", "a",
    "m", "e", "\"", ":", "\"", "Q", "\"", "}", "]", ",", "\"", "n", "o", "t", "e", "s",
    "\"", ":", "\"", "o", "k", "\"", "}", "]">>
\* The plan looks realistic and well paced, so nothing in it has to change.
R_prose ==
  <<"T", "h", "e", " ", "p", "l", "a", "n", " ", "l", "o", "o", "k", "s", " ", "r", "e",
    "a", "l", "i", "s", "t", "i", "c", " ", "a", "n", "d", " ", "w", "e", "l", "l", " ",
    "p", "a", "c", "e", "d", ",", " ", "s", "o", " ", "n", "o", "t", "h", "i", "n", "g",
    " ", "i", "n", " ", "i", "t", " ", "h", "a", "s", " ", "t", "o", " ", "c", "h", "a",
    "n", "g", "e", ".">>
\* {"ok":true}
R_object ==
  <<"{", "\"", "o", "k", "\"", ":", "t", "r", "u", "e", "}">>
\* null
R_null ==
  <<"n", "u", "l", "l">>
\* [1]
R_scalars ==
  <<"[", "1", "]">>
\* '''json\n[]\n'''
R_fenced_empty ==
  <<Backtick, Backtick, Backtick, "j", "s", "o", "n", "\n", "[", "]", "\n", Backtick,
    Backtick, Backtick>>
\* Rome
City_Rome ==
  <<"R", "o", "m", "e">>

\* ---- bounds and input sets ----
\* longest pre-existing notes text the generation LLM is given to return
MaxNotesLen == 2

NotesAlphabet == {" ", "|", "a"}

\* every text over NotesAlphabet of length <= MaxNotesLen
NotesValues == UNION {[1..n -> NotesAlphabet] : n \in 0..MaxNotesLen}

\* a one-day itinerary whose notes are n
NotesText(n) == NotesPrefix \o n \o NotesSuffix

\* response.content of the generation call (line 135)
GenTexts ==
  {G_scenario1, G_prose, G_object, G_string, G_number, G_null, G_scalars, G_mixed,
   G_notes_null, G_notes_absent, G_notes_number, G_no_day, G_day_text, G_fenced,
   G_two_days, G_bad_activity, G_bad_place}
  \cup {NotesText(n) : n \in NotesValues}

\* llm.invoke either raises or returns a message with text content
GenResponses == {[kind |-> "raise", text |-> <<>>]} \cup {[kind |-> "text", text |-> x] : x \in GenTexts}

ReviewTexts == {R_revised, R_prose, R_object, R_null, R_scalars, R_fenced_empty}

ReviewResponses ==
  {[kind |-> "raise", text |-> <<>>]} \cup {[kind |-> "text", text |-> x] : x \in ReviewTexts}

WeatherBodies ==
  {W_sunny, W_fog_int, W_html, W_empty_object, W_array, W_no_condition, W_condition_text,
   W_no_desc, W_desc_empty, W_desc_text, W_no_value, W_no_temp}

\* requests.get(url, timeout=5) times out, fails, or returns a body
WeatherResponses ==
  {[kind |-> "timeout", body |-> <<>>], [kind |-> "network_error", body |-> <<>>]}
  \cup {[kind |-> "body", body |-> x] : x \in WeatherBodies}

\* geocode(query): a location, None, or an exception
GeocodeOutcomes == {"location", "none", "raise"}

\* the text typed into the Destination City field
Cities == {<<>>, <<" ">>, City_Rome}

\* ---- get_weather ----
WeatherSummary(desc, temp) == PyStr(desc) \o s_comma_space \o PyStr(temp) \o s_degC

\* faulty variant of get_weather: temp_C is read with a default instead of indexed
get_weather_default_temp(resp) ==
  IF resp.kind # "body" THEN s_weather_unavailable
  ELSE LET data == json_loads(resp.body)
           cond == GetItem(GetItem(data, JStr(s_current_condition)), JNum(0))
           desc == GetItem(GetItem(GetItem(cond, JStr(s_weatherDesc)), JNum(0)), JStr(s_value))
           temp == GetItem(cond, JStr(s_temp_C))
       IN IF desc = Raised THEN s_weather_unavailable
          ELSE WeatherSummary(desc, IF temp = Raised THEN JNull ELSE temp)

get_weather(resp) ==
  IF resp.kind # "body" THEN s_weather_unavailable
  ELSE LET data == json_loads(resp.body)
           cond == GetItem(GetItem(data, JStr(s_current_condition)), JNum(0))
           desc == GetItem(GetItem(GetItem(cond, JStr(s_weatherDesc)), JNum(0)), JStr(s_value))
           temp == GetItem(cond, JStr(s_temp_C))
       IN IF desc = Raised \/ temp = Raised THEN s_weather_unavailable
          ELSE WeatherSummary(desc, temp)

\* ---- create_itinerary: shape coercion and weather injection ----
PlaceholderItinerary(description) ==
  JList(<<JDict(Put(Put(Put(EmptyMap, s_day, JNum(1)),
                        s_activities,
                        JList(<<JDict(Put(Put(Put(Put(EmptyMap, s_time, JStr(s_All_Day)),
                                                  s_place_name, JStr(s_Unknown)),
                                              s_category, JStr(s_Sightseeing)),
                                          s_description, description))>>)),
                    s_notes, JStr(<<>>)))>>)

\* lines 139-152
Coerce(v) ==
  CASE v.t = "dict" -> JList(<<v>>)
    [] v.t = "str" -> PlaceholderItinerary(v)
    [] v.t \notin {"dict", "str", "list"} -> PlaceholderItinerary(JStr(s_Invalid_response_format))
    [] OTHER -> v

\* faulty variant of AddWeatherDay: the separator is not trimmed
AddWeatherDay_no_strip(day, weather) ==
  IF day.t # "dict" THEN day
  ELSE LET notes == Get(day, s_notes, JStr(<<>>))
       IN IF notes.t # "str" THEN Raised
          ELSE JDict(Put(day.kv, s_notes, JStr(notes.s \o s_weather_sep \o weather)))

\* line 158 on one element; Raised is the TypeError of notes + str
AddWeatherDay(day, weather) ==
  IF day.t # "dict" THEN day
  ELSE LET notes == Get(day, s_notes, JStr(<<>>))
       IN IF notes.t # "str" THEN Raised
          ELSE JDict(Put(day.kv, s_notes,
                         JStr(Strip(notes.s \o s_weather_sep \o weather, {" ", "|"}))))

\* lines 156-158
AddWeather(it, weather) ==
  LET days == [i \in 1..Len(it.items) |-> AddWeatherDay(it.items[i], weather)]
  IN IF \E i \in 1..Len(days) : days[i] = Raised THEN Raised ELSE JList(days)

\* ---- review_itinerary ----
review_itinerary(itinerary_json, resp) ==
  IF resp.kind = "raise" THEN itinerary_json
  ELSE LET revised == parse_llm_json(resp.text)
       IN IF revised.t = "list" THEN revised ELSE itinerary_json

\* ---- rendering ----
RECURSIVE SetToSeq(_)
SetToSeq(S) == IF S = {} THEN <<>> ELSE LET x == CHOOSE x \in S : TRUE IN <<x>> \o SetToSeq(S \ {x})

\* a for loop over v does not raise TypeError
Iterable(v) == v.t \in {"list", "str", "dict"}

\* the elements a for loop draws from an iterable v
Iterate(v) ==
  CASE v.t = "list" -> v.items
    [] v.t = "str" -> [i \in 1..Len(v.s) |-> JStr(<<v.s[i]>>)]
    [] v.t = "dict" -> LET ks == SetToSeq(DOMAIN v.kv) IN [i \in 1..Len(ks) |-> JStr(ks[i])]

\* day.get("activities", [])
ActivitiesValue(day) == Get(day, s_activities, JList(<<>>))

Activities(day) == Iterate(ActivitiesValue(day))

\* lines 258-313 raise on this element of the itinerary
CardsRaise(day) ==
  \/ day.t # "dict"
  \/ ~Iterable(ActivitiesValue(day))
  \/ \E i \in 1..Len(Activities(day)) :
       LET act == Activities(day)[i]
       IN \/ act.t # "dict"
          \/ Get(act, s_place_name, JStr(s_Unknown_Place)).t # "str"

colors == <<"red", "blue", "green", "purple", "orange", "darkred", "cadetblue">>

\* colors[(day["day"] - 1) % len(colors)], Raised on KeyError or TypeError
MarkerColor(day) ==
  IF s_day \notin DOMAIN day.kv THEN Raised
  ELSE LET d == day.kv[s_day]
       IN CASE d.t = "num" -> JStr(colors[((d.n - 1) % Len(colors)) + 1])
            [] d.t = "bool" -> JStr(colors[(((IF d.b THEN 1 ELSE 0) - 1) % Len(colors)) + 1])
            [] OTHER -> Raised

\* act.get("place_name", "")
PlaceOf(act) == Get(act, s_place_name, JStr(<<>>))

\* the first activity at or after index from that is not skipped by line 210; 0 when none
RECURSIVE NextPlace(_, _)
NextPlace(day, from) ==
  IF from > Len(Activities(day)) THEN 0
  ELSE IF Truthy(PlaceOf(Activities(day)[from])) THEN from
  ELSE NextPlace(day, from + 1)

\* lines 213-223 for one activity: the markers after it
MarkersAfter(marks, day, act, outcome) ==
  IF outcome = "location" /\ MarkerColor(day) # Raised
  THEN Append(marks, [place |-> PyStr(PlaceOf(act)), color |-> MarkerColor(day).s])
  ELSE marks

\* faulty variant of CityRejected: the city is tested against None only
CityRejected_none_only(c) == FALSE

\* line 244: not city.strip()
CityRejected(c) == Strip(c, PyWhitespace) = <<>>

\* ---- the application: one run of the generate button handler at a time ----
VARIABLES
  pc,          \* "idle" before the button is pressed, where the handler stands ("weather",
               \* "review", "map_city", "map_act"), "done" once the script run has ended
  city,        \* the submitted city text
  message,     \* "none", "validation_error" (st.error) or "success" (st.success)
  crashed,     \* "none", or where an exception left the handler: "llm", "create_itinerary", "render"
  calls,       \* the external calls issued since the button was pressed, in order
  genResp,     \* the generation call's outcome
  parses,      \* the parse_llm_json applications of this run: [text, result]
  coerced,     \* itinerary_json after lines 139-152
  weatherResp, \* the weather request's outcome
  weather,     \* get_weather's return value
  augmented,   \* itinerary_json after lines 155-158, the reviewer's argument
  reviewResp,  \* the review call's outcome
  itinerary,   \* create_itinerary's return value
  returned,    \* TRUE once create_itinerary has returned
  dayIdx,      \* the element of itinerary being rendered
  actIdx,      \* the activity display_map_day is geocoding
  cityGeo,     \* the outcome of geocode(city) for the current map
  center,      \* "city" or "default" (19.0760, 72.8777)
  geo,         \* the outcomes of this map's activity lookups, in order
  markers,     \* the markers added to the current map
  maps         \* the maps displayed so far in this run

vars ==
  <<pc, city, message, crashed, calls, genResp, parses, coerced, weatherResp, weather,
    augmented, reviewResp, itinerary, returned, dayIdx, actIdx, cityGeo, center, geo,
    markers, maps>>

NoResp == [kind |-> "none", text |-> <<>>]
NoWeatherResp == [kind |-> "none", body |-> <<>>]

\* nothing of a create_itinerary call or of a rendering is on the page
Fresh ==
  /\ genResp' = NoResp
  /\ parses' = <<>>
  /\ coerced' = JNull
  /\ weatherResp' = NoWeatherResp
  /\ weather' = <<>>
  /\ augmented' = JNull
  /\ reviewResp' = NoResp
  /\ itinerary' = JNull
  /\ returned' = FALSE
  /\ dayIdx' = 0
  /\ actIdx' = 0
  /\ cityGeo' = "none"
  /\ center' = "none"
  /\ geo' = <<>>
  /\ markers' = <<>>
  /\ maps' = <<>>

Init ==
  /\ pc = "idle"
  /\ city = <<>>
  /\ message = "none"
  /\ crashed = "none"
  /\ calls = <<>>
  /\ genResp = NoResp
  /\ parses = <<>>
  /\ coerced = JNull
  /\ weatherResp = NoWeatherResp
  /\ weather = <<>>
  /\ augmented = JNull
  /\ reviewResp = NoResp
  /\ itinerary = JNull
  /\ returned = FALSE
  /\ dayIdx = 0
  /\ actIdx = 0
  /\ cityGeo = "none"
  /\ center = "none"
  /\ geo = <<>>
  /\ markers = <<>>
  /\ maps = <<>>

\* lines 243-245: the button is pressed with a city that fails validation
SubmitRejected ==
  /\ pc = "idle"
  /\ \E c \in Cities :
       /\ CityRejected(c)
       /\ city' = c
       /\ message' = "validation_error"
       /\ crashed' = "none"
       /\ calls' = <<>>
       /\ pc' = "done"
       /\ Fresh

\* lines 246-248, 135-152: the generation call, normalisation and coercion
SubmitCity ==
  /\ pc = "idle"
  /\ \E c \in Cities, r \in GenResponses :
       /\ ~CityRejected(c)
       /\ city' = c
       /\ message' = "none"
       /\ calls' = <<"llm_generate">>
       /\ genResp' = r
       /\ IF r.kind = "raise"
          THEN /\ crashed' = "llm"
               /\ pc' = "done"
               /\ parses' = <<>>
               /\ coerced' = JNull
          ELSE /\ crashed' = "none"
               /\ pc' = "weather"
               /\ parses' = <<[text |-> r.text, result |-> parse_llm_json(r.text)]>>
               /\ coerced' = Coerce(parse_llm_json(r.text))
       /\ weatherResp' = NoWeatherResp
       /\ weather' = <<>>
       /\ augmented' = JNull
       /\ reviewResp' = NoResp
       /\ itinerary' = JNull
       /\ returned' = FALSE
       /\ dayIdx' = 0
       /\ actIdx' = 0
       /\ cityGeo' = "none"
       /\ center' = "none"
       /\ geo' = <<>>
       /\ markers' = <<>>
       /\ maps' = <<>>

\* lines 155-158 when the weather request ends as r
WeatherDone(r) ==
  LET w == get_weather(r)
      out == AddWeather(coerced, w)
  IN /\ weatherResp' = r
     /\ weather' = w
     /\ calls' = Append(calls, "weather")
     /\ IF out = Raised
        THEN /\ crashed' = "create_itinerary"
             /\ pc' = "done"
             /\ augmented' = JNull
        ELSE /\ crashed' = "none"
             /\ pc' = "review"
             /\ augmented' = out
     /\ UNCHANGED <<city, message, genResp, parses, coerced, reviewResp, itinerary, returned,
                    dayIdx, actIdx, cityGeo, center, geo, markers, maps>>

\* faulty variant of WeatherStep: a request that timed out or failed is issued again
WeatherStep_retry ==
  /\ pc = "weather"
  /\ \E r \in WeatherResponses :
       IF r.kind # "body"
       THEN /\ calls' = Append(calls, "weather")
            /\ weatherResp' = r
            /\ UNCHANGED <<pc, city, message, crashed, genResp, parses, coerced, weather,
                           augmented, reviewResp, itinerary, returned, dayIdx, actIdx,
                           cityGeo, center, geo, markers, maps>>
       ELSE WeatherDone(r)

\* lines 155-158: the weather request and the notes of every day
WeatherStep ==
  /\ pc = "weather"
  /\ \E r \in WeatherResponses : WeatherDone(r)

\* faulty variant of BeginDay: the review pass is run once the days are displayed
BeginDay_review_last(it, i) ==
  IF i > Len(it.items)
  THEN /\ pc' = "review"
       /\ crashed' = "none"
       /\ dayIdx' = 0
  ELSE IF CardsRaise(it.items[i])
  THEN /\ pc' = "done"
       /\ crashed' = "render"
       /\ dayIdx' = i
  ELSE /\ pc' = "map_city"
       /\ crashed' = "none"
       /\ dayIdx' = i

\* lines 254-313 for element i of the itinerary it, up to the first lookup of its map:
\* the rendering is over (i past the end), raises, or reaches display_map_day
BeginDay(it, i) ==
  IF i > Len(it.items)
  THEN /\ pc' = "done"
       /\ crashed' = "none"
       /\ dayIdx' = 0
  ELSE IF CardsRaise(it.items[i])
  THEN /\ pc' = "done"
       /\ crashed' = "render"
       /\ dayIdx' = i
  ELSE /\ pc' = "map_city"
       /\ crashed' = "none"
       /\ dayIdx' = i

\* lines 160-162, 250-254: the review call; create_itinerary returns and rendering starts
ReviewStep ==
  /\ pc = "review"
  /\ \E r \in ReviewResponses :
       LET result == review_itinerary(augmented, r)
       IN /\ reviewResp' = r
          /\ calls' = Append(calls, "llm_review")
          /\ parses' = IF r.kind = "raise" THEN parses
                       ELSE Append(parses, [text |-> r.text, result |-> parse_llm_json(r.text)])
          /\ itinerary' = result
          /\ returned' = TRUE
          /\ message' = "success"
          /\ BeginDay(result, 1)
  /\ UNCHANGED <<city, genResp, coerced, weatherResp, weather, augmented, actIdx, cityGeo,
                 center, geo, markers, maps>>

\* line 225 and the loop of line 254: the map is displayed and the next element begins
ShowMap(day, c, cg, g, marks) ==
  /\ maps' = Append(maps, [day |-> day, cityGeo |-> cg, center |-> c, geo |-> g, markers |-> marks])
  /\ actIdx' = 0
  /\ BeginDay(itinerary, dayIdx + 1)

\* lines 207-211: on to the activity at index n, or to the end of the loop when n = 0
Continue(day, n, c, cg, g, marks) ==
  /\ cityGeo' = cg
  /\ center' = c
  /\ geo' = g
  /\ markers' = marks
  /\ IF n = 0
     THEN ShowMap(day, c, cg, g, marks)
     ELSE /\ actIdx' = n
          /\ pc' = "map_act"
          /\ UNCHANGED <<crashed, dayIdx, maps>>

\* lines 201-205: geocode(city) and the map's center
GeocodeCity ==
  /\ pc = "map_city"
  /\ \E o \in GeocodeOutcomes :
       LET day == itinerary.items[dayIdx]
       IN /\ calls' = Append(calls, "geocode")
          /\ Continue(day, NextPlace(day, 1), IF o = "location" THEN "city" ELSE "default",
                      o, <<>>, <<>>)
  /\ UNCHANGED <<city, message, genResp, parses, coerced, weatherResp, weather, augmented,
                 reviewResp, itinerary, returned>>

\* lines 213-223: geocode(place, city) and the marker
GeocodeActivity ==
  /\ pc = "map_act"
  /\ \E o \in GeocodeOutcomes :
       LET day == itinerary.items[dayIdx]
           act == Activities(day)[actIdx]
       IN /\ calls' = Append(calls, "geocode")
          /\ Continue(day, NextPlace(day, actIdx + 1), center, cityGeo, Append(geo, o),
                      MarkersAfter(markers, day, act, o))
  /\ UNCHANGED <<city, message, genResp, parses, coerced, weatherResp, weather, augmented,
                 reviewResp, itinerary, returned>>

\* a widget interaction reruns the script with the button not pressed (line 243 is
\* false): the previous run's output is gone, nothing is kept between runs
Rerun ==
  /\ pc = "done"
  /\ pc' = "idle"
  /\ city' = <<>>
  /\ message' = "none"
  /\ crashed' = "none"
  /\ calls' = <<>>
  /\ Fresh

Next ==
  \/ Rerun
  \/ SubmitRejected
  \/ SubmitCity
  \/ WeatherStep
  \/ ReviewStep
  \/ GeocodeCity
  \/ GeocodeActivity

Spec == Init /\ [][Next]_vars

\* ---- the texts the properties are stated with ----
\* Weather: 
WeatherLabel ==
  <<"W", "e", "a", "t", "h", "e", "r", ":", " ">>
\* Sunny, 30°C
SunnySummary ==
  <<"S", "u", "n", "n", "y", ",", " ", "3", "0", "°", "C">>
\* Fog, -7°C
FogSummary ==
  <<"F", "o", "g", ",", " ", "-", "7", "°", "C">>
\* Weather data unavailable
UnavailableText ==
  <<"W", "e", "a", "t", "h", "e", "r", " ", "d", "a", "t", "a", " ", "u", "n", "a", "v",
    "a", "i", "l", "a", "b", "l", "e">>
\* Weather: Sunny, 30°C
Scenario1Notes ==
  <<"W", "e", "a", "t", "h", "e", "r", ":", " ", "S", "u", "n", "n", "y", ",", " ", "3",
    "0", "°", "C">>

\* ---- properties ----
\* a sequence whose every element is a mapping (the fields of a Day are all optional)
IsDaySequence(v) ==
  /\ v.t = "list"
  /\ \A i \in 1..Len(v.items) : v.items[i].t = "dict"

\* the first character of the fence-stripped text admits a top-level value of kind t
StartsLike(text, t) ==
  LET c == Cleaned(text)
  IN /\ c # <<>>
     /\ CASE t = "list" -> c[1] = "["
          [] t = "dict" -> c[1] = "{"
          [] t = "str" -> c[1] = "\""
          [] t = "num" -> c[1] = "-" \/ IsDigit(c[1])
          [] t = "bool" -> c[1] \in {"t", "f"}
          [] t = "null" -> c[1] = "n"
          [] OTHER -> FALSE

\* the single-Day value of line 41 for text, read field by field
IsFallbackFor(v, text) ==
  /\ v.t = "list"
  /\ Len(v.items) = 1
  /\ v.items[1].t = "dict"
  /\ DOMAIN v.items[1].kv = {s_day, s_activities, s_notes}
  /\ v.items[1].kv[s_day] = JNum(1)
  /\ v.items[1].kv[s_notes] = JStr(<<>>)
  /\ LET acts == v.items[1].kv[s_activities]
     IN /\ acts.t = "list"
        /\ Len(acts.items) = 1
        /\ acts.items[1].t = "dict"
        /\ DOMAIN acts.items[1].kv = {s_time, s_place_name, s_description}
        /\ acts.items[1].kv[s_time] = JStr(s_All_day)
        /\ acts.items[1].kv[s_place_name] = JStr(s_Unknown)
        /\ acts.items[1].kv[s_description] = JStr(text)

C2_ReturnIsDaySequence == returned => IsDaySequence(itinerary)

\* the notes of a mapping end with "Weather: <summary>"
HasWeatherSuffix(day, summary) ==
  /\ s_notes \in DOMAIN day.kv
  /\ day.kv[s_notes].t = "str"
  /\ EndsWith(day.kv[s_notes].s, WeatherLabel \o summary)

\* C3 as stated: in the itinerary create_itinerary returns, the notes of every Day end
\* with "Weather: <summary>", <summary> being get_weather's string for the request.
C3_ReturnedNotesEndWithWeather ==
  returned =>
    \A i \in 1..Len(itinerary.items) :
      itinerary.items[i].t = "dict" => HasWeatherSuffix(itinerary.items[i], weather)

\* C3 amended: in the weather-augmented itinerary that create_itinerary hands to the
\* reviewer, the notes of every Day end with "Weather: <summary>" for any pre-existing
\* notes text, and are exactly "Weather: <summary>" when the pre-existing notes are empty
\* or absent; the elements that are no mappings are left as they were.
C3_AugmentedNotesEndWithWeather ==
  augmented # JNull =>
    /\ Len(augmented.items) = Len(coerced.items)
    /\ \A i \in 1..Len(coerced.items) :
         IF coerced.items[i].t = "dict"
         THEN /\ augmented.items[i].t = "dict"
              /\ HasWeatherSuffix(augmented.items[i], weather)
              /\ Get(coerced.items[i], s_notes, JStr(<<>>)) = JStr(<<>>)
                   => augmented.items[i].kv[s_notes] = JStr(WeatherLabel \o weather)
         ELSE augmented.items[i] = coerced.items[i]

\* C3 witness: scenario 1 of the specification, empty notes and "Sunny, 30°C"
C3_Witness ==
  /\ genResp.text = G_scenario1
  /\ weatherResp.body = W_sunny
  /\ augmented # JNull
  /\ augmented.items[1].kv[s_notes] = JStr(Scenario1Notes)

\* C4 as stated: review_itinerary returns its argument unchanged whenever the review call
\* raises, the review response is not a sequence, or the response is text that is not
\* valid structured data.
C4_ReviewFallsBackToOriginal ==
  (/\ returned
   /\ \/ reviewResp.kind = "raise"
      \/ json_loads(Cleaned(reviewResp.text)) = Raised
      \/ json_loads(Cleaned(reviewResp.text)).t # "list")
    => itinerary = augmented

\* C5 as stated: once the generation call has returned, create_itinerary returns without
\* raising; only a failed generation call aborts the pipeline.
C5_OnlyGenerationCallAborts ==
  /\ genResp.kind = "text" => crashed \notin {"llm", "create_itinerary"}
  /\ genResp.kind = "raise" => crashed = "llm"

\* C6: a press of the button with an empty city ends in the validation message with no
\* external call issued.
C6_EmptyCityRejected ==
  (pc # "idle" /\ city = <<>>) =>
    /\ pc = "done"
    /\ message = "validation_error"
    /\ calls = <<>>
    /\ crashed = "none"
    /\ ~returned

\* C6 witness: the button was pressed with the empty city
C6_Witness == pc = "done" /\ city = <<>> /\ message = "validation_error"

\* what get_weather is to return for each modelled outcome of its request
ExpectedWeather(resp) ==
  IF resp.kind = "body" /\ resp.body = W_sunny THEN SunnySummary
  ELSE IF resp.kind = "body" /\ resp.body = W_fog_int THEN FogSummary
  ELSE UnavailableText

\* C7: get_weather never raises; it returns "<description>, <temp>°C" for a response
\* carrying both fields and exactly "Weather data unavailable" for a timeout, a network
\* error, a body that is not JSON and a body lacking an expected field.
C7_WeatherNeverRaises ==
  weatherResp.kind # "none" =>
    /\ weather = ExpectedWeather(weatherResp)
    /\ Len(SelectSeq(calls, LAMBDA c : c = "weather")) = 1

\* C7 witness: a body whose weatherDesc list is empty gave the sentinel
C7_Witness ==
  /\ weatherResp.kind = "body"
  /\ weatherResp.body = W_desc_empty
  /\ weather = UnavailableText

Count(kind) == Len(SelectSeq(calls, LAMBDA c : c = kind))

\* the place of a call kind in the order the claim gives
RankAsStated(c) ==
  CASE c = "llm_generate" -> 1
    [] c = "weather" -> 2
    [] c = "geocode" -> 3
    [] c = "llm_review" -> 4

\* the place of a call kind in the order of the code
RankInCode(c) ==
  CASE c = "llm_generate" -> 1
    [] c = "weather" -> 2
    [] c = "llm_review" -> 3
    [] c = "geocode" -> 4

\* C8 as stated: the calls of one generation are issued in the order generation LLM,
\* weather, geocoding, review LLM.
C8_OrderGenWeatherGeocodeReview ==
  \A i, j \in 1..Len(calls) : i < j => RankAsStated(calls[i]) <= RankAsStated(calls[j])

\* C8 amended: the calls of one generation are issued in the order generation LLM,
\* weather, review LLM, geocoding (the review call is made inside create_itinerary, before
\* any rendering); the first call is the generation call and each call is issued after
\* the one before it has completed.
C8_OrderGenWeatherReviewGeocode ==
  /\ \A i, j \in 1..Len(calls) : i < j => RankInCode(calls[i]) <= RankInCode(calls[j])
  /\ calls # <<>> => calls[1] = "llm_generate"
  /\ Count("geocode") > 0 => (Count("weather") = 1 /\ Count("llm_review") = 1)
  /\ Count("llm_review") > 0 => Count("weather") = 1

\* C8 witness: a geocoding call was issued after the review call
C8_Witness ==
  \E i, j \in 1..Len(calls) : i < j /\ calls[i] = "llm_review" /\ calls[j] = "geocode"

\* C9: within one generation the generation LLM, the weather service and the review LLM
\* are each called at most once; a failed generation call is followed by no call at all,
\* a failed weather call by the sentinel, a failed review call by the pre-review value.
C9_NoRetry ==
  /\ Count("llm_generate") <= 1
  /\ Count("weather") <= 1
  /\ Count("llm_review") <= 1
  /\ genResp.kind = "raise" => (calls = <<"llm_generate">> /\ pc = "done")
  /\ weatherResp.kind \in {"timeout", "network_error"} =>
       (weather = UnavailableText /\ Count("weather") = 1)
  /\ reviewResp.kind = "raise" =>
       (returned /\ itinerary = augmented /\ Count("llm_review") = 1)

\* C9 witness: the weather request timed out, the review call raised, and the run ended
C9_Witness ==
  /\ pc = "done"
  /\ weatherResp.kind = "timeout"
  /\ reviewResp.kind = "raise"
  /\ returned
  /\ Count("geocode") > 0

\* the places of the activities display_map_day looks up, in order
LookedUp(day) ==
  LET acts == SelectSeq(Activities(day), LAMBDA a : PlaceOf(a) # JStr(<<>>))
  IN [k \in 1..Len(acts) |-> PlaceOf(acts[k]).s]

\* the places among ps whose lookup returned a location
RECURSIVE Located(_, _)
Located(ps, outcomes) ==
  IF ps = <<>> THEN <<>>
  ELSE (IF Head(outcomes) = "location" THEN <<Head(ps)>> ELSE <<>>)
       \o Located(Tail(ps), Tail(outcomes))

\* C10 as stated: every displayed map holds exactly one marker per activity with a
\* non-empty place_name whose lookup returned a location, every such activity was looked
\* up whatever the earlier lookups did, and a failed city lookup gives the default center.
C10_OneMarkerPerLocatedActivity ==
  \A i \in 1..Len(maps) :
    LET m == maps[i]
    IN /\ Len(m.geo) = Len(LookedUp(m.day))
       /\ [k \in 1..Len(m.markers) |-> m.markers[k].place] = Located(LookedUp(m.day), m.geo)
       /\ m.cityGeo # "location" => m.center = "default"

====
